---- MODULE Spec2Model ----
(***************************************************************************)
(* A model of credits.py, the ElevenLabs credit usage analyzer.            *)
(*                                                                         *)
(* Python integers are unbounded and the timestamps of the program exceed  *)
(* 2^31 (the seconds/milliseconds threshold is 32503680000), so a          *)
(* timestamp is a non-negative integer written in base 1000: a non-empty   *)
(* sequence of limbs in 0..999, most significant first, with no leading    *)
(* zero limb except for the number zero, <<0>>.  Multiplying by 1000       *)
(* appends a zero limb and floor division by 1000 drops the last limb, so  *)
(* both are exact.  The empty sequence stands for None where a timestamp   *)
(* is optional.  A Python attribute or dict key that is None or absent is  *)
(* a record field that is absent, except for strings, where None is the    *)
(* value None below.                                                       *)
(***************************************************************************)
EXTENDS Integers, Sequences, FiniteSets, TLC

\* ------------------------------------------------------------- bounds
\* Longest upstream speech history.
MaxHist == 3
\* Largest number of records the history endpoint puts on one page.
MaxPageCap == 2
\* Largest number of pages of the conversation listing.
MaxPages == 2
\* Largest number of sessions on one page of the conversation listing.
MaxPerPage == 2
\* Longest list of records handed to summarize_usage on its own.
MaxCalls == 3
\* How far the integers handed to normalize_timestamp on its own reach from
\* zero and from 32503680000.
NormSpan == 12

\* ---------------------------------------------------------- integers
None == "None"

Min(a, b) == IF a <= b THEN a ELSE b

\* a < b for two base-1000 numbers.
RECURSIVE LexLess(_, _)
LexLess(a, b) ==
    IF a = <<>> THEN FALSE
    ELSE IF Head(a) # Head(b) THEN Head(a) < Head(b)
    ELSE LexLess(Tail(a), Tail(b))

TsLess(a, b) ==
    \/ Len(a) < Len(b)
    \/ Len(a) = Len(b) /\ LexLess(a, b)

TsLeq(a, b) == a = b \/ TsLess(a, b)

\* t * 1000
Mul1000(t) == IF t = <<0>> THEN <<0>> ELSE Append(t, 0)

\* t // 1000
Div1000(t) == IF Len(t) = 1 THEN <<0>> ELSE SubSeq(t, 1, Len(t) - 1)

\* The literal 32503680000 of normalize_timestamp.
YearThreeThousand == <<32, 503, 680, 0>>

\* A negative integer carries its sign on its first limb: <<-5, 0>> is -5000.
IsNegative(t) == t[1] < 0

\* abs(t)
Magnitude(t) == IF IsNegative(t) THEN <<-t[1]>> \o Tail(t) ELSE t

\* a < b for two integers of either sign.
IntLess(a, b) ==
    IF IsNegative(a)
    THEN ~IsNegative(b) \/ TsLess(Magnitude(b), Magnitude(a))
    ELSE ~IsNegative(b) /\ TsLess(a, b)

\* A test that takes 32503680000 itself for seconds.
normalize_timestamp_inclusive(timestamp) ==
    IF timestamp = YearThreeThousand \/ IntLess(timestamp, YearThreeThousand)
    THEN Mul1000(timestamp) ELSE timestamp

normalize_timestamp(timestamp) ==
    IF IntLess(timestamp, YearThreeThousand) THEN Mul1000(timestamp) ELSE timestamp

\* The text "%Y-%m-%d %H:%M:%S UTC" of timestamp_ms / 1000: the whole second
\* the instant falls in.  Between years 1000 and 9999 the text determines
\* that second and texts compare as their seconds do, so the second stands
\* for the text.
format_timestamp(timestamp_ms) == Div1000(timestamp_ms)

\* The last second datetime can hold, 9999-12-31 23:59:59 UTC.
LastSecond == <<253, 402, 300, 799>>

\* datetime.utcfromtimestamp raises ValueError on an instant after year 9999.
FormatRaises(timestamp_ms) == TsLess(LastSecond, Div1000(timestamp_ms))

\* Python truthiness of an optional string.
Truthy(s) == s # None /\ s # ""

Has(r, f) == f \in DOMAIN r

\* dict.get(key, default)
Get(r, f, default) == IF f \in DOMAIN r THEN r[f] ELSE default


\* ------------------------------------------------- the remote history
\* page_size of get_speech_history.
page_size == 1000

HistIds == <<"h1", "h2", "h3", "h4", "h5", "h6">>

\* date_unix of a history item, in seconds.
TimeVals == {<<1>>, <<2>>, <<3>>}

\* What a history item carries besides its id and date: the character
\* counters (absent on an item the API returns without them), the source
\* and the voice name.
ItemProfiles ==
    { [character_count_change_from |-> 10, character_count_change_to |-> 7,
       source |-> "TTS", voice_name |-> "Rachel"],
      [character_count_change_from |-> 5, character_count_change_to |-> 5,
       source |-> None, voice_name |-> None],
      [source |-> "TTS", voice_name |-> "Adam"] }

\* The item with id h<i>.
HistItem(i, t, prof) ==
    [f \in {"history_item_id", "date_unix"} \cup DOMAIN prof |->
        IF f = "history_item_id" THEN HistIds[i]
        ELSE IF f = "date_unix" THEN t
        ELSE prof[f]]

\* Every history of at most MaxHist items, in any order of time.
Histories ==
    UNION { { [i \in 1..n |-> HistItem(i, ts[i], ps[i])] :
                ts \in [1..n -> TimeVals], ps \in [1..n -> ItemProfiles] } :
            n \in 0..MaxHist }

\* Position of an id in a history, 0 for None (and for an unknown id).
PosOf(h, id) ==
    IF \E i \in 1..Len(h) : h[i].history_item_id = id
    THEN CHOOSE i \in 1..Len(h) : h[i].history_item_id = id
    ELSE 0

\* client.history.list(page_size, start_after_history_item_id): the items
\* after the given one, at most cap of them and at most size.
ServePage(h, cap, size, after, hm) ==
    LET p == PosOf(h, after)
        q == Min(Len(h), p + Min(cap, size))
        items == SubSeq(h, p + 1, q)
    IN  [history |-> items,
         has_more |-> hm,
         last_history_item_id |->
            IF items = <<>> THEN None ELSE items[Len(items)].history_item_id]

\* ------------------------------------------------- get_speech_history
calculate_credits_used(item) ==
    IF Has(item, "character_count_change_from") /\ Has(item, "character_count_change_to")
    THEN item.character_count_change_from - item.character_count_change_to
    ELSE 0

\* The window test with the end bound left out of the window.
InWindow_exclusiveEnd(item_time_ms, s, e) == TsLeq(s, item_time_ms) /\ TsLess(item_time_ms, e)

\* start_ms <= item_time_ms <= end_ms
InWindow(item_time_ms, s, e) == TsLeq(s, item_time_ms) /\ TsLeq(item_time_ms, e)

\* A scan that takes no record for older than the window.
IsOlder_never(item_time_ms, s) == FALSE

\* item_time_ms < start_ms
IsOlder(item_time_ms, s) == TsLess(item_time_ms, s)

\* Building call_data formats the time of the item, which raises after year
\* 9999, and reads item.character_count_change_from and _to, which raises on
\* an item without them.
CallDataRaises(item) ==
    \/ FormatRaises(Mul1000(item.date_unix))
    \/ ~ (Has(item, "character_count_change_from") /\ Has(item, "character_count_change_to"))

\* call_data, without the fields that are copied and never read again
\* (text, voice_id, voice_category, model_id, content_type, request_id,
\* settings, feedback).
SpeechCallData(item) ==
    [type |-> "speech_generation",
     id |-> item.history_item_id,
     timestamp |-> item.date_unix,
     timestamp_ms |-> Mul1000(item.date_unix),
     formatted_time |-> format_timestamp(Mul1000(item.date_unix)),
     credits_used |-> calculate_credits_used(item),
     voice_name |-> item.voice_name,
     source |-> IF Truthy(item.source) THEN item.source ELSE None,
     character_count_from |-> item.character_count_change_from,
     character_count_to |-> item.character_count_change_to]

\* A handler that gives up what was fetched.
SpeechOnException_discard(acc) == <<>>

\* What get_speech_history returns once an exception is caught: the handler
\* breaks out of the loop to `return all_history`.
SpeechOnException(acc) == acc

\* What the record older than start_ms makes the function return.
SpeechOnOlder(acc) == acc

\* A scan that only skips the records older than start_ms.
StopAtOlder_never == FALSE

\* Whether the record older than start_ms ends the scan (the `return`).
StopAtOlder == TRUE

\* ------------------------------------------- the remote conversations
\* page_size of get_conversation_history.
conv_page_size == 100

ConvIds == <<"c1", "c2", "c3", "c4", "c5", "c6", "c7", "c8", "c9", "c10", "c11", "c12">>

\* start_time_unix_secs of the sessions, by their place in the listing.
ConvTimes == <<<<3>>, <<1>>, <<2>>, <<2>>, <<1>>, <<3>>, <<2>>, <<3>>, <<1>>, <<1>>, <<2>>, <<3>>>>

\* The cursor a response carries when another page follows page k.
Cursors == <<"cur1", "cur2", "cur3", "cur4">>

\* The list-level record of the k-th session of the listing.
ConvSession(k) ==
    [conversation_id |-> ConvIds[k],
     agent_id |-> "agent",
     start_time_unix_secs |-> ConvTimes[k],
     call_duration_secs |-> 30 + k,
     status |-> "done"]

RECURSIVE SumSeq(_)
SumSeq(ns) == IF ns = <<>> THEN 0 ELSE Head(ns) + SumSeq(Tail(ns))

\* The listing cut into pages of the given lengths.
PagesOf(lens) ==
    [p \in 1..Len(lens) |->
        [i \in 1..lens[p] |-> ConvSession(SumSeq(SubSeq(lens, 1, p - 1)) + i)]]

\* Every listing of at most MaxPages pages of at most MaxPerPage sessions.
Listings ==
    UNION { { PagesOf(lens) : lens \in [1..n -> 0..MaxPerPage] } : n \in 0..MaxPages }

\* Which page a cursor asks for.
PageOfCursor(c) ==
    IF c = None THEN 1 ELSE 1 + CHOOSE k \in 1..Len(Cursors) : Cursors[k] = c

\* client.conversational_ai.conversations.list(cursor, ...).
ServeConversations(pages, c) ==
    LET k == PageOfCursor(c) IN
    [conversations |-> IF k <= Len(pages) THEN pages[k] ELSE <<>>,
     cursor |-> IF k < Len(pages) THEN Cursors[k] ELSE None]

\* What conversations.get can answer for a session, an exception aside:
\* metadata.cost is absent when it is None; a transcript entry has no
\* llm_usage when it is None, and an llm_usage may lack total_tokens.
Details(conversation) ==
    { [metadata |-> [start_time_unix_secs |-> conversation.start_time_unix_secs,
                     call_duration_secs |-> conversation.call_duration_secs,
                     cost |-> 7],
       transcript |-> << [role |-> "user"],
                         [role |-> "agent", llm_usage |-> [total_tokens |-> 20]],
                         [role |-> "assistant", llm_usage |-> [total_tokens |-> 5]],
                         [role |-> "user", llm_usage |-> [model |-> "m"]] >>],
      [metadata |-> [start_time_unix_secs |-> conversation.start_time_unix_secs,
                     call_duration_secs |-> conversation.call_duration_secs],
       transcript |-> << >>] }

\* ------------------------------------------- get_conversation_history
\* total_cost: metadata.cost when it is truthy, else 0.
TotalCost(metadata) ==
    IF Has(metadata, "cost") /\ metadata.cost # 0 THEN metadata.cost ELSE 0

\* total_llm_tokens: the loop over detailed_conv.transcript.
RECURSIVE TotalLlmTokens(_)
TotalLlmTokens(transcript) ==
    IF transcript = <<>> THEN 0
    ELSE (IF Has(Head(transcript), "llm_usage")
             /\ Has(Head(transcript).llm_usage, "total_tokens")
          THEN Head(transcript).llm_usage.total_tokens
          ELSE 0) + TotalLlmTokens(Tail(transcript))

CountRole(transcript, role) ==
    Len(SelectSeq(transcript, LAMBDA t : t.role = role))

\* conv_data of a session whose detail was fetched, without the fields that
\* are copied from the detail and never read again (accepted_time,
\* termination_reason, main_language, charging_info, phone_call_info,
\* error_info).
ConvData(conversation, detailed_conv) ==
    [type |-> "conversational_ai",
     id |-> conversation.conversation_id,
     agent_id |-> conversation.agent_id,
     timestamp |-> detailed_conv.metadata.start_time_unix_secs,
     timestamp_ms |-> Mul1000(detailed_conv.metadata.start_time_unix_secs),
     formatted_time |-> format_timestamp(Mul1000(detailed_conv.metadata.start_time_unix_secs)),
     credits_used |-> TotalCost(detailed_conv.metadata),
     duration_secs |-> detailed_conv.metadata.call_duration_secs,
     status |-> conversation.status,
     total_llm_tokens |-> TotalLlmTokens(detailed_conv.transcript),
     transcript_summary |->
        [total_items |-> Len(detailed_conv.transcript),
         user_messages |-> CountRole(detailed_conv.transcript, "user"),
         assistant_messages |-> CountRole(detailed_conv.transcript, "assistant")]]

\* conv_data of a session whose detail fetch raised.
DegradedData(conversation) ==
    [type |-> "conversational_ai",
     id |-> conversation.conversation_id,
     agent_id |-> conversation.agent_id,
     timestamp |-> conversation.start_time_unix_secs,
     timestamp_ms |-> Mul1000(conversation.start_time_unix_secs),
     formatted_time |-> format_timestamp(Mul1000(conversation.start_time_unix_secs)),
     credits_used |-> 0,
     duration_secs |-> conversation.call_duration_secs,
     status |-> conversation.status,
     error |-> "Could not fetch detailed data"]

\* An inner handler that leaves the failed session out.
AfterGetFailure_drop(acc, conversation) == acc

\* The inner `except Exception`: the degraded record is appended and the
\* loop over the page goes on.
AfterGetFailure(acc, conversation) == Append(acc, DegradedData(conversation))

\* An outer handler that lets the exception through.
ConvOuterHandlerCatches_not == FALSE

\* Whether the outer `except Exception` catches what conversations.list
\* raises.
ConvOuterHandlerCatches == TRUE

\* The outer `except Exception`: `return []`.
ConvOnException(acc) == <<>>

\* ----------------------------------------------------- summarize_usage
\* A breakdown that starts with an entry for speech generation.
EmptyDict_seeded == "speech_generation" :> [count |-> 0, credits |-> 0]

\* The `{}` each breakdown starts from.
EmptyDict == <<>>

\* A by_type step that overwrites the count instead of adding to it.
GroupStep_resetCount(acc, key, call) ==
    LET start == IF key \in DOMAIN acc THEN acc ELSE acc @@ (key :> [count |-> 0, credits |-> 0])
    IN  [start EXCEPT ![key] = [count |-> 1,
                                credits |-> @.credits + Get(call, "credits_used", 0)]]

\* One turn of a grouping loop: create the entry if the key is new, then
\* count the call and add its credits.
GroupStep(acc, key, call) ==
    LET start == IF key \in DOMAIN acc THEN acc ELSE acc @@ (key :> [count |-> 0, credits |-> 0])
    IN  [start EXCEPT ![key] = [count |-> @.count + 1,
                                credits |-> @.credits + Get(call, "credits_used", 0)]]

\* sum(call.get("credits_used", 0) for call in all_calls)
RECURSIVE TotalCredits(_)
TotalCredits(calls) ==
    IF calls = <<>> THEN 0
    ELSE Get(Head(calls), "credits_used", 0) + TotalCredits(Tail(calls))

\* The by_type loop.
RECURSIVE ByType(_, _)
ByType(calls, acc) ==
    IF calls = <<>> THEN acc
    ELSE ByType(Tail(calls), GroupStep(acc, Head(calls).type, Head(calls)))

\* A test that forgets the type of the call.
GroupedCall_anyType(call, key) == Truthy(Get(call, key, None))

\* call["type"] == "speech_generation" and call.get(key)
GroupedCall(call, key) ==
    call.type = "speech_generation" /\ Truthy(Get(call, key, None))

\* The by_source loop (key "source") and the by_voice loop (key "voice_name").
RECURSIVE ByKey(_, _, _)
ByKey(calls, key, acc) ==
    IF calls = <<>> THEN acc
    ELSE ByKey(Tail(calls), key,
               IF GroupedCall(Head(calls), key)
               THEN GroupStep(acc, Head(calls)[key], Head(calls))
               ELSE acc)

\* min(...) and max(...) of the formatted times of a non-empty list.
RECURSIVE MinTime(_)
MinTime(calls) ==
    IF Len(calls) = 1 THEN calls[1].formatted_time
    ELSE LET m == MinTime(Tail(calls))
         IN  IF TsLess(m, Head(calls).formatted_time) THEN m ELSE Head(calls).formatted_time

RECURSIVE MaxTime(_)
MaxTime(calls) ==
    IF Len(calls) = 1 THEN calls[1].formatted_time
    ELSE LET m == MaxTime(Tail(calls))
         IN  IF TsLess(Head(calls).formatted_time, m) THEN m ELSE Head(calls).formatted_time

summarize_usage(calls) ==
    [total_api_calls |-> Len(calls),
     total_credits_used |-> TotalCredits(calls),
     breakdown_by_type |-> ByType(calls, EmptyDict),
     breakdown_by_source |-> ByKey(calls, "source", EmptyDict),
     breakdown_by_voice |-> ByKey(calls, "voice_name", EmptyDict),
     time_range |-> [earliest_call |-> IF calls # <<>> THEN MinTime(calls) ELSE <<>>,
                     latest_call |-> IF calls # <<>> THEN MaxTime(calls) ELSE <<>>]]

\* The records summarize_usage is tried on: speech records with and without
\* a source, a voice name and credits, with empty strings for the two names,
\* and conversation records, one of them carrying the two names.
CallRecords ==
    { [type |-> "speech_generation", id |-> "h1", formatted_time |-> <<2>>,
       credits_used |-> 3, source |-> "TTS", voice_name |-> "Rachel"],
      [type |-> "speech_generation", id |-> "h2", formatted_time |-> <<1>>,
       credits_used |-> 5, source |-> None, voice_name |-> "Adam"],
      [type |-> "speech_generation", id |-> "h3", formatted_time |-> <<3>>,
       source |-> "STS", voice_name |-> None],
      [type |-> "speech_generation", id |-> "h4", formatted_time |-> <<2>>,
       credits_used |-> 2, source |-> "", voice_name |-> ""],
      [type |-> "conversational_ai", id |-> "c1", formatted_time |-> <<2>>,
       credits_used |-> 7],
      [type |-> "conversational_ai", id |-> "c2", formatted_time |-> <<4>>,
       credits_used |-> 4, source |-> "TTS", voice_name |-> "Rachel"] }

CallLists == UNION { [1..n -> CallRecords] : n \in 0..MaxCalls }

\* ----------------------------------------------------------------- main
\* What time.time() answers during the run, in whole seconds.
RunTime == <<4>>

\* What client.user.get() can answer, an exception aside: a subscription
\* with a reset time and the detailed usage, one with neither, and an
\* answer whose subscription is None.
UserInfos ==
    { [subscription |-> [tier |-> "pro", character_count |-> 120,
                         character_limit |-> 1000,
                         next_character_count_reset_unix |-> <<5>>],
       subscription_extras |-> [usage |-> [rollover_credits_used |-> 1,
                                           subscription_cycle_credits_used |-> 120,
                                           actual_reported_credits |-> 121]]],
      [subscription |-> [tier |-> "free", character_count |-> 0,
                         character_limit |-> 100]],
      [tier |-> "unknown"] }

\* subscription_data, without the voice slot, status and currency fields
\* and with three of the eight detailed-usage fields.
SubscriptionData(user_info) ==
    LET subscription == user_info.subscription
        reset == Get(subscription, "next_character_count_reset_unix", <<>>)
        basic == [tier |-> subscription.tier,
                  character_count_used |-> subscription.character_count,
                  character_limit |-> subscription.character_limit,
                  next_reset_unix |-> reset,
                  next_reset_formatted |->
                     IF reset # <<>> /\ reset # <<0>>
                     THEN format_timestamp(Mul1000(reset)) ELSE <<>>]
    IN  IF Has(user_info, "subscription_extras") /\ Has(user_info.subscription_extras, "usage")
        THEN basic @@ [detailed_usage |->
                [rollover_credits_used |->
                    user_info.subscription_extras.usage.rollover_credits_used,
                 subscription_cycle_credits_used |->
                    user_info.subscription_extras.usage.subscription_cycle_credits_used,
                 actual_reported_credits |->
                    user_info.subscription_extras.usage.actual_reported_credits]]
        ELSE basic

\* A reader that lets the exception through.
ReaderOnException_raise(e) == [raised |-> e]

\* The `except Exception` of get_usage_analytics and get_subscription_info:
\* return {"error": str(e)}.
ReaderOnException(e) == [error |-> e]

\* get_subscription_info on an answer of client.user.get(): reading
\* user_info.subscription.tier raises when the subscription is None.
get_subscription_info(user_info) ==
    IF ~Has(user_info, "subscription")
    THEN ReaderOnException("'NoneType' object has no attribute 'tier'")
    ELSE IF FormatRaises(Mul1000(Get(user_info.subscription,
                                     "next_character_count_reset_unix", <<0>>)))
    THEN ReaderOnException("year is out of range")
    ELSE SubscriptionData(user_info)

\* get_usage_analytics on an answer of client.usage.get().
UsageAnalytics(analytics) ==
    [usage_analytics |-> analytics,
     fetched_at |-> format_timestamp(Mul1000(RunTime))]

\* Whether a reader handed main a value or let an exception through.
Propagates(value) == Has(value, "raised")

\* start_ms >= end_ms
WindowRejected(s, e) == ~TsLess(s, e)

\* not api_key
KeyMissing(key) == ~Truthy(key)

\* The exit status of a run that ends in sys.exit(1).
ExitFailure == <<1>>

\* The exit status of a run that ends in an exception nothing catches.
ExitTraceback == <<1>>

\* The exit status of a run in which main returns.
ExitSuccess == <<0>>

\* all_calls.sort(key=lambda x: x["timestamp"]): a stable sort.
RECURSIVE InsertByTimestamp(_, _)
InsertByTimestamp(sorted, x) ==
    IF sorted = <<>> THEN <<x>>
    ELSE IF TsLess(x.timestamp, Head(sorted).timestamp) THEN <<x>> \o sorted
    ELSE <<Head(sorted)>> \o InsertByTimestamp(Tail(sorted), x)

RECURSIVE SortByTimestamp(_)
SortByTimestamp(calls) ==
    IF calls = <<>> THEN <<>>
    ELSE InsertByTimestamp(SortByTimestamp(SubSeq(calls, 1, Len(calls) - 1)),
                           calls[Len(calls)])

\* A document that carries the records whatever --summary-only says.
OutputData_alwaysCalls(a, s, e, sub, summ, analytics, calls) ==
    [query_info |->
        [start_timestamp |-> a.start_timestamp,
         end_timestamp |-> a.end_timestamp,
         start_timestamp_ms |-> s,
         end_timestamp_ms |-> e,
         start_time_formatted |-> format_timestamp(s),
         end_time_formatted |-> format_timestamp(e),
         generated_at |-> format_timestamp(Mul1000(RunTime))],
     subscription_info |-> sub,
     summary |-> summ,
     usage_analytics |-> analytics,
     individual_calls |-> calls]

\* output_data.
OutputData(a, s, e, sub, summ, analytics, calls) ==
    LET doc == [query_info |->
                    [start_timestamp |-> a.start_timestamp,
                     end_timestamp |-> a.end_timestamp,
                     start_timestamp_ms |-> s,
                     end_timestamp_ms |-> e,
                     start_time_formatted |-> format_timestamp(s),
                     end_time_formatted |-> format_timestamp(e),
                     generated_at |-> format_timestamp(Mul1000(RunTime))],
                subscription_info |-> sub,
                summary |-> summ,
                usage_analytics |-> analytics]
    IN  IF ~a.summary_only THEN doc @@ [individual_calls |-> calls] ELSE doc

\* json.dumps(output_data, indent=2 if args.pretty else None): the text is
\* the document in the chosen layout.
JsonDumps(doc, pretty) == [json |-> doc, indent |-> IF pretty THEN <<2>> ELSE <<>>]

\* The summary block printed before the document.
PrintedSummary(summ) ==
    [total_api_calls |-> summ.total_api_calls,
     total_credits_used |-> summ.total_credits_used,
     speech_generations |->
        IF "speech_generation" \in DOMAIN summ.breakdown_by_type
        THEN summ.breakdown_by_type["speech_generation"].count ELSE 0,
     conversational_ai_calls |->
        IF "conversational_ai" \in DOMAIN summ.breakdown_by_type
        THEN summ.breakdown_by_type["conversational_ai"].count ELSE 0]

\* The command lines main is run with: the two timestamps in seconds or in
\* milliseconds on either side of 32503680000, or in milliseconds at the
\* first instant of year 10000, and the options.
ArgTimestamps == {<<1>>, <<2>>, <<3>>, <<32, 503, 679, 999>>, <<32, 503, 680, 0>>,
                  <<32, 503, 680, 1>>, <<253, 402, 300, 800, 0>>}

ArgOptions ==
    { [summary_only |-> FALSE, pretty |-> FALSE, output |-> None],
      [summary_only |-> TRUE, pretty |-> TRUE, output |-> "report.json"] }

\* The remote history main is run against: newest first, the newest item at
\* 32503680000 ms.
MainHistory ==
    << HistItem(1, <<32, 503, 680>>,
                [character_count_change_from |-> 10, character_count_change_to |-> 7,
                 source |-> "TTS", voice_name |-> "Rachel"]),
       HistItem(2, <<2>>,
                [character_count_change_from |-> 5, character_count_change_to |-> 5,
                 source |-> None, voice_name |-> None]),
       HistItem(3, <<1>>,
                [character_count_change_from |-> 9, character_count_change_to |-> 1,
                 source |-> "TTS", voice_name |-> "Adam"]) >>

VARIABLES
    \* the two parameters shared by the fetchers
    start_ms, end_ms,
    \* the remote speech history and the page length the endpoint serves
    history, pageCap,
    \* get_speech_history: position, locals, returned value
    spc, start_after_id, response, idx, all_history, speech_result,
    \* observations of get_speech_history: the history.list requests made,
    \* the ids of the records the loop looked at, whether an exception was
    \* caught, whether a response said has_more = False with records left
    requests, examined, speech_raised, has_more_lied

speechVars == <<start_ms, end_ms, history, pageCap, spc, start_after_id, response,
                idx, all_history, speech_result, requests, examined,
                speech_raised, has_more_lied>>

VARIABLES
    \* the remote conversation listing, page by page
    convPages,
    \* get_conversation_history: position, locals, returned value
    cpc, cursor, conv_response, cidx, all_conversations, conv_result,
    \* observations of get_conversation_history: the conversations.list
    \* calls made, the conversations.get calls made with what each answered,
    \* whether a conversations.list call raised
    list_calls, get_log, conv_list_raised

convVars == <<convPages, cpc, cursor, conv_response, cidx, all_conversations,
              conv_result, list_calls, get_log, conv_list_raised>>

VARIABLES
    \* main: position, command line, credential, exit status
    pc, args, api_key, exit_status,
    \* main: the values it collects and what it builds from them
    subscription_info, speech_history, conversation_history, usage_analytics,
    all_calls, summary, output_data,
    \* what the run leaves behind: files written, text printed
    files, stdout,
    \* observations of main: the calls of client.user.get and
    \* client.usage.get, whether ElevenLabs(api_key=...) raised,
    \* the readers (subscription, analytics) whose try block raised,
    \* whether the run ended in an exception nothing caught
    api_log, client_raised, reader_failed, uncaught

mainVars == <<pc, args, api_key, exit_status, subscription_info, speech_history,
              conversation_history, usage_analytics, all_calls, summary, output_data,
              files, stdout, api_log, client_raised, reader_failed, uncaught>>

vars == <<speechVars, convVars, mainVars>>

\* Nothing of main has run.
MainBlank ==
    /\ exit_status = <<>> /\ subscription_info = <<>> /\ speech_history = <<>>
    /\ conversation_history = <<>> /\ usage_analytics = <<>> /\ summary = <<>>
    /\ output_data = <<>> /\ files = <<>> /\ stdout = <<>> /\ api_log = <<>>
    /\ client_raised = FALSE /\ reader_failed = {} /\ uncaught = FALSE

\* A fetcher or summarize_usage is run on its own, without main.
MainIdle ==
    /\ pc = "none" /\ args = <<>> /\ api_key = None /\ all_calls = <<>>
    /\ MainBlank

SpeechIdle ==
    /\ spc = "idle" /\ start_after_id = None /\ response = <<>> /\ idx = 0
    /\ all_history = <<>> /\ speech_result = <<>> /\ requests = <<>>
    /\ examined = <<>> /\ speech_raised = FALSE /\ has_more_lied = FALSE

ConvIdle ==
    /\ cpc = "idle" /\ cursor = None /\ conv_response = <<>> /\ cidx = 0
    /\ all_conversations = <<>> /\ conv_result = <<>> /\ list_calls = <<>>
    /\ get_log = <<>> /\ conv_list_raised = FALSE

\* get_speech_history called on its own, on any history and any window.
InitSpeech ==
    /\ history \in Histories
    /\ pageCap \in 1..MaxPageCap
    /\ start_ms \in {<<1, 500>>, <<2, 0>>, <<3, 0>>}
    /\ end_ms \in {<<1, 0>>, <<2, 0>>, <<2, 500>>, <<3, 0>>}
    /\ SpeechIdle
    /\ convPages = <<>> /\ ConvIdle
    /\ MainIdle

\* Entry: all_history = [], start_after_id = None.
SpeechEnter ==
    /\ spc = "idle"
    /\ spc' = "list"
    /\ UNCHANGED <<start_ms, end_ms, history, pageCap, start_after_id, response, idx,
                   all_history, speech_result, requests, examined, speech_raised,
                   has_more_lied>>

SpeechReturn(value) ==
    /\ spc' = "done"
    /\ speech_result' = value

\* A handler that goes round the loop again instead of leaving it.
SpeechHandlerBreaks_retry == FALSE

\* The `break` that ends the `except Exception` handler of the loop.
SpeechHandlerBreaks == TRUE

\* The `except Exception` handler of the loop: leave the loop, and so return
\* what was accumulated.
SpeechCaught(acc) ==
    IF SpeechHandlerBreaks
    THEN SpeechReturn(SpeechOnException(acc))
    ELSE spc' = "list" /\ UNCHANGED speech_result

\* client.history.list(...) and the `if not response.history: break` after it.
HistoryList ==
    /\ spc = "list"
    /\ requests' = Append(requests, [page_size |-> page_size,
                                     start_after_history_item_id |-> start_after_id])
    /\ \/ /\ speech_raised' = TRUE
          /\ SpeechCaught(all_history)
          /\ UNCHANGED <<response, idx, has_more_lied>>
       \/ \E hm \in BOOLEAN :
            LET r == ServePage(history, pageCap, page_size, start_after_id, hm)
                left == Len(history) - PosOf(history, start_after_id) - Len(r.history)
            IN  /\ response' = r
                /\ has_more_lied' = (has_more_lied \/ (~hm /\ left > 0))
                /\ IF r.history = <<>>
                   THEN SpeechReturn(all_history) /\ idx' = idx
                   ELSE spc' = "items" /\ idx' = 1 /\ UNCHANGED speech_result
                /\ UNCHANGED speech_raised
    /\ UNCHANGED <<start_ms, end_ms, history, pageCap, start_after_id, all_history,
                   examined>>

\* One turn of `for item in response.history`.
ProcessItem ==
    /\ spc = "items" /\ idx <= Len(response.history)
    /\ LET item == response.history[idx]
           item_time_ms == Mul1000(item.date_unix)
       IN  /\ examined' = Append(examined, item.history_item_id)
           /\ IF InWindow(item_time_ms, start_ms, end_ms)
              THEN IF CallDataRaises(item)
                   THEN /\ speech_raised' = TRUE
                        /\ SpeechCaught(all_history)
                        /\ UNCHANGED <<all_history, idx>>
                   ELSE /\ all_history' = Append(all_history, SpeechCallData(item))
                        /\ idx' = idx + 1
                        /\ UNCHANGED <<spc, speech_result, speech_raised>>
              ELSE IF IsOlder(item_time_ms, start_ms) /\ StopAtOlder
                   THEN /\ SpeechReturn(SpeechOnOlder(all_history))
                        /\ UNCHANGED <<all_history, idx, speech_raised>>
                   ELSE /\ idx' = idx + 1
                        /\ UNCHANGED <<all_history, spc, speech_result, speech_raised>>
    /\ UNCHANGED <<start_ms, end_ms, history, pageCap, start_after_id, response,
                   requests, has_more_lied>>

\* A cursor taken from the first item of the page instead of the last.
NextStartAfter_firstItem(resp) == resp.history[1].history_item_id

\* start_after_id = response.last_history_item_id
NextStartAfter(resp) == resp.last_history_item_id

\* After the last item of a page: `if not response.has_more: break`, else
\* start_after_id = response.last_history_item_id.
PageEnd ==
    /\ spc = "items" /\ idx > Len(response.history)
    /\ IF ~response.has_more
       THEN SpeechReturn(all_history) /\ UNCHANGED start_after_id
       ELSE /\ start_after_id' = NextStartAfter(response)
            /\ spc' = "list"
            /\ UNCHANGED speech_result
    /\ UNCHANGED <<start_ms, end_ms, history, pageCap, response, idx, all_history,
                   requests, examined, speech_raised, has_more_lied>>

NextSpeech ==
    \/ SpeechEnter /\ UNCHANGED <<convVars, mainVars>>
    \/ HistoryList /\ UNCHANGED <<convVars, mainVars>>
    \/ ProcessItem /\ UNCHANGED <<convVars, mainVars>>
    \/ PageEnd /\ UNCHANGED <<convVars, mainVars>>

SpecSpeech == InitSpeech /\ [][NextSpeech]_vars

\* ------------------------------------------- get_conversation_history
\* get_conversation_history called on its own, on any listing.
InitConv ==
    /\ convPages \in Listings
    /\ start_ms \in {<<1, 500>>, <<2, 0>>}
    /\ end_ms \in {<<2, 999>>, <<3, 0>>}
    /\ ConvIdle
    /\ history = <<>> /\ pageCap = 1 /\ SpeechIdle
    /\ MainIdle

\* Entry: all_conversations = [], cursor = None.
ConvEnter ==
    /\ cpc = "idle"
    /\ cpc' = "list"
    /\ UNCHANGED <<convPages, cursor, conv_response, cidx, all_conversations,
                   conv_result, list_calls, get_log, conv_list_raised>>

ConvReturn(value) ==
    /\ cpc' = "done"
    /\ conv_result' = value

\* conversations.list(...) and the `if not response.conversations: break`
\* after it.  An exception here is caught by the outer handler.
ConversationsList ==
    /\ cpc = "list"
    /\ list_calls' = Append(list_calls,
            [cursor |-> cursor,
             call_start_after_unix |-> Div1000(start_ms),
             call_start_before_unix |-> Div1000(end_ms),
             page_size |-> conv_page_size])
    /\ \/ /\ conv_list_raised' = TRUE
          /\ IF ConvOuterHandlerCatches
             THEN ConvReturn(ConvOnException(all_conversations))
             ELSE cpc' = "raised" /\ UNCHANGED conv_result
          /\ UNCHANGED <<conv_response, cidx>>
       \/ LET r == ServeConversations(convPages, cursor) IN
          /\ conv_response' = r
          /\ IF r.conversations = <<>>
             THEN ConvReturn(all_conversations) /\ cidx' = cidx
             ELSE cpc' = "sessions" /\ cidx' = 1 /\ UNCHANGED conv_result
          /\ UNCHANGED conv_list_raised
    /\ UNCHANGED <<convPages, cursor, all_conversations, get_log>>

\* One turn of `for conversation in response.conversations`: the detail
\* fetch, then either the enriched record or, in the inner handler, the
\* degraded one.
ConversationGet ==
    /\ cpc = "sessions" /\ cidx <= Len(conv_response.conversations)
    /\ LET conversation == conv_response.conversations[cidx] IN
       \/ /\ get_log' = Append(get_log, [conversation_id |-> conversation.conversation_id,
                                         raised |-> TRUE])
          /\ all_conversations' = AfterGetFailure(all_conversations, conversation)
       \/ \E detailed_conv \in Details(conversation) :
            /\ get_log' = Append(get_log, [conversation_id |-> conversation.conversation_id,
                                           raised |-> FALSE,
                                           detail |-> detailed_conv])
            /\ all_conversations' = Append(all_conversations,
                                           ConvData(conversation, detailed_conv))
    /\ cidx' = cidx + 1
    /\ UNCHANGED <<convPages, cpc, cursor, conv_response, conv_result, list_calls,
                   conv_list_raised>>

\* After the last session of a page: break when the response has no cursor,
\* else cursor = response.cursor.
ConvPageEnd ==
    /\ cpc = "sessions" /\ cidx > Len(conv_response.conversations)
    /\ IF ~Truthy(conv_response.cursor)
       THEN ConvReturn(all_conversations) /\ UNCHANGED cursor
       ELSE /\ cursor' = conv_response.cursor
            /\ cpc' = "list"
            /\ UNCHANGED conv_result
    /\ UNCHANGED <<convPages, conv_response, cidx, all_conversations, list_calls,
                   get_log, conv_list_raised>>

NextConv ==
    \/ ConvEnter /\ UNCHANGED <<speechVars, mainVars>>
    \/ ConversationsList /\ UNCHANGED <<speechVars, mainVars>>
    \/ ConversationGet /\ UNCHANGED <<speechVars, mainVars>>
    \/ ConvPageEnd /\ UNCHANGED <<speechVars, mainVars>>

SpecConv == InitConv /\ [][NextConv]_vars

\* ----------------------------------------------------- summarize_usage
\* summarize_usage called on its own, on any list of records.
InitSumm ==
    /\ all_calls \in CallLists
    /\ pc = "summarize" /\ args = <<>> /\ api_key = None
    /\ MainBlank
    /\ start_ms = <<>> /\ end_ms = <<>>
    /\ history = <<>> /\ pageCap = 1 /\ SpeechIdle
    /\ convPages = <<>> /\ ConvIdle

Goto(next) ==
    /\ pc' = next
    /\ UNCHANGED <<exit_status, uncaught>>

Summarize ==
    /\ pc = "summarize"
    /\ summary' = summarize_usage(all_calls)
    /\ Goto("summarized")
    /\ UNCHANGED <<args, api_key, subscription_info, speech_history,
                   conversation_history, usage_analytics, all_calls, output_data,
                   files, stdout, api_log, client_raised, reader_failed>>

NextSumm == Summarize /\ UNCHANGED <<speechVars, convVars>>

SpecSumm == InitSumm /\ [][NextSumm]_vars

\* -------------------------------------------------- normalize_timestamp
\* The integers normalize_timestamp is tried on: those around zero, of
\* either sign, those on either side of 32503680000 and of its negative,
\* and millisecond values of today and of year 10000.
NormInputs ==
    {<<k>> : k \in (0 - NormSpan)..NormSpan}
    \cup {<<32, 503, 679, 999 - k>> : k \in 0..NormSpan}
    \cup {<<32, 503, 680, k>> : k \in 0..NormSpan}
    \cup {<<-32, 503, 680, k>> : k \in 0..NormSpan}
    \cup {<<999>>, <<1, 0>>, <<-1, 0>>, <<1, 700, 0, 0>>, <<1, 700, 0, 0, 0>>,
          <<32, 503, 679, 999, 999>>, <<253, 402, 300, 800, 0>>}

\* normalize_timestamp called on its own, on any of these integers.
InitNorm ==
    /\ \E t \in NormInputs : args = [timestamp |-> t]
    /\ pc = "normalize" /\ api_key = None /\ all_calls = <<>>
    /\ MainBlank
    /\ start_ms = <<>> /\ end_ms = <<>>
    /\ history = <<>> /\ pageCap = 1 /\ SpeechIdle
    /\ convPages = <<>> /\ ConvIdle

NormFrame ==
    UNCHANGED <<args, api_key, subscription_info, speech_history,
                conversation_history, usage_analytics, all_calls, summary,
                output_data, files, stdout, api_log, client_raised, reader_failed,
                history, pageCap, spc, start_after_id, response, idx, all_history,
                speech_result, requests, examined, speech_raised, has_more_lied,
                convVars>>

\* The function applied to the integer.
Normalize ==
    /\ pc = "normalize"
    /\ start_ms' = normalize_timestamp(args.timestamp)
    /\ Goto("normalized")
    /\ UNCHANGED end_ms
    /\ NormFrame

\* The function applied to its own result.
NormalizeAgain ==
    /\ pc = "normalized"
    /\ end_ms' = normalize_timestamp(start_ms)
    /\ Goto("renormalized")
    /\ UNCHANGED start_ms
    /\ NormFrame

NextNorm == Normalize \/ NormalizeAgain

SpecNorm == InitNorm /\ [][NextNorm]_vars

\* ----------------------------------------------------------------- main
\* A run of the program: a parsed command line, an environment with or
\* without the credential, and the remote account.
InitMain ==
    /\ \E s \in ArgTimestamps, e \in ArgTimestamps, o \in ArgOptions :
          args = [start_timestamp |-> s, end_timestamp |-> e] @@ o
    /\ api_key \in {None, "", "sk-key"}
    /\ pc = "credential" /\ all_calls = <<>>
    /\ MainBlank
    /\ start_ms = <<>> /\ end_ms = <<>>
    /\ history = MainHistory /\ pageCap \in {1, 2} /\ SpeechIdle
    /\ convPages \in {PagesOf(<<1, 1>>)} /\ ConvIdle

MainFrame == UNCHANGED <<speechVars, convVars>>

\* sys.exit(status), or main returning.
Exit(status) ==
    /\ pc' = "exited"
    /\ exit_status' = status
    /\ UNCHANGED uncaught

\* An exception nothing catches ends the run with a traceback.
Crash ==
    /\ pc' = "exited"
    /\ exit_status' = ExitTraceback
    /\ uncaught' = TRUE

\* os.getenv and `if not api_key: sys.exit(1)`.
CheckCredential ==
    /\ pc = "credential"
    /\ IF KeyMissing(api_key) THEN Exit(ExitFailure) ELSE Goto("window")
    /\ UNCHANGED <<args, api_key, subscription_info, speech_history,
                   conversation_history, usage_analytics, all_calls, summary,
                   output_data, files, stdout, api_log, client_raised, reader_failed>>
    /\ MainFrame

\* The two normalize_timestamp calls and `if start_ms >= end_ms: sys.exit(1)`.
CheckWindow ==
    /\ pc = "window"
    /\ start_ms' = normalize_timestamp(args.start_timestamp)
    /\ end_ms' = normalize_timestamp(args.end_timestamp)
    /\ IF WindowRejected(start_ms', end_ms') THEN Exit(ExitFailure) ELSE Goto("announce")
    /\ UNCHANGED <<args, api_key, subscription_info, speech_history,
                   conversation_history, usage_analytics, all_calls, summary,
                   output_data, files, stdout, api_log, client_raised, reader_failed>>
    /\ UNCHANGED <<history, pageCap, spc, start_after_id, response, idx, all_history,
                   speech_result, requests, examined, speech_raised, has_more_lied>>
    /\ UNCHANGED convVars

\* The file name and the lines printed before connecting: the first of them
\* formats start_ms and end_ms, outside any try.
Announce ==
    /\ pc = "announce"
    /\ IF FormatRaises(start_ms) \/ FormatRaises(end_ms) THEN Crash ELSE Goto("connect")
    /\ UNCHANGED <<args, api_key, subscription_info, speech_history,
                   conversation_history, usage_analytics, all_calls, summary,
                   output_data, files, stdout, api_log, client_raised, reader_failed>>
    /\ MainFrame

\* ElevenLabs(api_key=api_key), which may raise: sys.exit(1).
Connect ==
    /\ pc = "connect"
    /\ \/ client_raised' = TRUE /\ Exit(ExitFailure)
       \/ Goto("subscription") /\ UNCHANGED client_raised
    /\ UNCHANGED <<args, api_key, subscription_info, speech_history,
                   conversation_history, usage_analytics, all_calls, summary,
                   output_data, files, stdout, api_log, reader_failed>>
    /\ MainFrame

\* What main does with the value of a reader: keep it and go on, or end on
\* the exception the reader let through.
AfterReader(value, next) ==
    IF Propagates(value) THEN Crash ELSE Goto(next)

\* subscription_info = get_subscription_info(client).
GetSubscriptionInfo ==
    /\ pc = "subscription"
    /\ api_log' = Append(api_log, "user.get")
    /\ \/ /\ subscription_info' = ReaderOnException("user.get failed")
          /\ reader_failed' = reader_failed \cup {"subscription"}
       \/ \E user_info \in UserInfos :
            /\ subscription_info' = get_subscription_info(user_info)
            /\ reader_failed' = IF Has(user_info, "subscription") THEN reader_failed
                                ELSE reader_failed \cup {"subscription"}
    /\ AfterReader(subscription_info', "speech")
    /\ UNCHANGED <<args, api_key, speech_history, conversation_history,
                   usage_analytics, all_calls, summary, output_data, files, stdout,
                   client_raised>>
    /\ MainFrame

\* speech_history = get_speech_history(client, start_ms, end_ms): the call.
CallSpeech ==
    /\ pc = "speech"
    /\ SpeechEnter
    /\ Goto("in_speech")
    /\ UNCHANGED <<args, api_key, subscription_info, speech_history,
                   conversation_history, usage_analytics, all_calls, summary,
                   output_data, files, stdout, api_log, client_raised, reader_failed>>
    /\ UNCHANGED convVars

\* ... and its return.
TakeSpeech ==
    /\ pc = "in_speech" /\ spc = "done"
    /\ speech_history' = speech_result
    /\ Goto("conversations")
    /\ UNCHANGED <<args, api_key, subscription_info, conversation_history,
                   usage_analytics, all_calls, summary, output_data, files, stdout,
                   api_log, client_raised, reader_failed>>
    /\ MainFrame

\* conversation_history = get_conversation_history(client, start_ms, end_ms):
\* the call.
CallConversations ==
    /\ pc = "conversations"
    /\ ConvEnter
    /\ Goto("in_conversations")
    /\ UNCHANGED <<args, api_key, subscription_info, speech_history,
                   conversation_history, usage_analytics, all_calls, summary,
                   output_data, files, stdout, api_log, client_raised, reader_failed>>
    /\ UNCHANGED speechVars

\* ... and its return, or the end of the run on an exception it let through.
TakeConversations ==
    /\ pc = "in_conversations" /\ cpc \in {"done", "raised"}
    /\ conversation_history' = conv_result
    /\ IF cpc = "raised" THEN Crash ELSE Goto("analytics")
    /\ UNCHANGED <<args, api_key, subscription_info, speech_history,
                   usage_analytics, all_calls, summary, output_data, files, stdout,
                   api_log, client_raised, reader_failed>>
    /\ MainFrame

\* usage_analytics = get_usage_analytics(client, start_ms, end_ms).
GetUsageAnalytics ==
    /\ pc = "analytics"
    /\ api_log' = Append(api_log, "usage.get")
    /\ \/ /\ usage_analytics' = ReaderOnException("usage.get failed")
          /\ reader_failed' = reader_failed \cup {"analytics"}
       \/ /\ usage_analytics' = UsageAnalytics([start_unix |-> Div1000(start_ms),
                                                end_unix |-> Div1000(end_ms),
                                                breakdown_type |-> "voice",
                                                aggregation_interval |-> "day",
                                                metric |-> "credits"])
          /\ UNCHANGED reader_failed
    /\ AfterReader(usage_analytics', "report")
    /\ UNCHANGED <<args, api_key, subscription_info, speech_history,
                   conversation_history, all_calls, summary, output_data, files,
                   stdout, client_raised>>
    /\ MainFrame

\* The rest of main: merge and sort the records, summarize, print the
\* summary block, build the document, write the file or files, print the
\* document; then main returns.
Report ==
    /\ pc = "report"
    /\ all_calls' = SortByTimestamp(speech_history \o conversation_history)
    /\ summary' = summarize_usage(all_calls')
    /\ output_data' = OutputData(args, start_ms, end_ms, subscription_info, summary',
                                 usage_analytics, all_calls')
    /\ LET json_output == JsonDumps(output_data', args.pretty)
           auto == [name |-> <<"api_stats_", RunTime, ".json">>, text |-> json_output]
       IN  /\ files' = IF Truthy(args.output)
                       THEN <<auto, [name |-> args.output, text |-> json_output]>>
                       ELSE <<auto>>
           /\ stdout' = <<PrintedSummary(summary'), json_output>>
    /\ Exit(ExitSuccess)
    /\ UNCHANGED <<args, api_key, subscription_info, speech_history,
                   conversation_history, usage_analytics, api_log, client_raised,
                   reader_failed>>
    /\ MainFrame

NextMain ==
    \/ CheckCredential
    \/ CheckWindow
    \/ Announce
    \/ Connect
    \/ GetSubscriptionInfo
    \/ CallSpeech
    \/ HistoryList /\ UNCHANGED <<convVars, mainVars>>
    \/ ProcessItem /\ UNCHANGED <<convVars, mainVars>>
    \/ PageEnd /\ UNCHANGED <<convVars, mainVars>>
    \/ TakeSpeech
    \/ CallConversations
    \/ ConversationsList /\ UNCHANGED <<speechVars, mainVars>>
    \/ ConversationGet /\ UNCHANGED <<speechVars, mainVars>>
    \/ ConvPageEnd /\ UNCHANGED <<speechVars, mainVars>>
    \/ TakeConversations
    \/ GetUsageAnalytics
    \/ Report

SpecMain == InitMain /\ [][NextMain]_vars

\* ------------------------------------------------- properties: speech
Ids(recs) == [i \in 1..Len(recs) |-> recs[i].id]

Range(seq) == {seq[i] : i \in 1..Len(seq)}

\* History item i is older than the window.
OlderAt(i) == TsLess(Mul1000(history[i].date_unix), start_ms)

\* History item i is newer than the window.
NewerAt(i) == TsLess(end_ms, Mul1000(history[i].date_unix))

HasOlder == \E i \in 1..Len(history) : OlderAt(i)

FirstOlder ==
    CHOOSE i \in 1..Len(history) : OlderAt(i) /\ \A j \in 1..(i - 1) : ~OlderAt(j)

StrictlyDecreasing(h) ==
    \A i, j \in 1..Len(h) : i < j => TsLess(h[j].date_unix, h[i].date_unix)

NewestFirst(h) ==
    \A i, j \in 1..Len(h) : i < j => TsLeq(h[j].date_unix, h[i].date_unix)

ItemInWindow(item) ==
    /\ TsLeq(start_ms, Mul1000(item.date_unix))
    /\ TsLeq(Mul1000(item.date_unix), end_ms)

\* C1: on a history with strictly decreasing timestamps the fetcher stops at
\* the first record older than start_ms: neither that record nor a later one
\* is in the result, none after it is looked at, the function has returned
\* as soon as it was looked at, and no history.list request follows it.
C1_EarlyStop ==
    (StrictlyDecreasing(history) /\ HasOlder) =>
        LET k == FirstOlder IN
        /\ \A r \in Range(all_history) \cup Range(speech_result) :
                PosOf(history, r.id) < k
        /\ \A id \in Range(examined) : PosOf(history, id) <= k
        /\ \A q \in Range(requests) :
                PosOf(history, q.start_after_history_item_id) < k
        /\ HistIds[k] \in Range(examined) =>
                /\ spc = "done"
                /\ speech_result = all_history
                /\ ~ ENABLED HistoryList

\* C1 witness: the scan met the first older record with a record after it in
\* the history and returned what it had found before.
C1_Witness ==
    /\ StrictlyDecreasing(history) /\ HasOlder
    /\ FirstOlder < Len(history)
    /\ HistIds[FirstOlder] \in Range(examined)
    /\ spc = "done"
    /\ Len(speech_result) >= 1

\* C2: a run over a newest-first history in which nothing raised and every
\* response told the truth about has_more returns exactly the records with
\* start_ms <= date_unix * 1000 <= end_ms, once each, in upstream order.
C2_ExactWindow ==
    (spc = "done" /\ NewestFirst(history) /\ ~speech_raised /\ ~has_more_lied) =>
        /\ Ids(speech_result) =
              LET inside == SelectSeq(history, ItemInWindow)
              IN  [i \in 1..Len(inside) |-> inside[i].history_item_id]
        /\ \A i \in 1..Len(speech_result) :
              LET item == history[PosOf(history, speech_result[i].id)] IN
              /\ speech_result[i].timestamp = item.date_unix
              /\ speech_result[i].timestamp_ms = Append(item.date_unix, 0)
              /\ speech_result[i].type = "speech_generation"

\* C2 witness: a record newer than end_ms was skipped, the scan went on over
\* a second page, and a record on the end bound and one on the start bound
\* were returned.
C2_Witness ==
    /\ spc = "done" /\ NewestFirst(history) /\ ~speech_raised /\ ~has_more_lied
    /\ Len(history) >= 1 /\ NewerAt(1)
    /\ Len(requests) >= 2
    /\ \E r \in Range(speech_result) : r.timestamp_ms = end_ms
    /\ \E r \in Range(speech_result) : r.timestamp_ms = start_ms

\* C3: the step in which an exception is caught (from history.list or from
\* building a record) returns the records accumulated so far, unchanged.
C3_PartialResult ==
    [][(~speech_raised /\ speech_raised') =>
            /\ spc' = "done"
            /\ all_history' = all_history
            /\ speech_result' = all_history]_vars

\* C3 witness: an exception was caught after records had been accumulated.
C3_Witness ==
    /\ speech_raised /\ spc = "done"
    /\ Len(all_history) >= 1
    /\ speech_result = all_history

\* ------------------------------------------ properties: conversations
RECURSIVE Flatten(_)
Flatten(pages) == IF pages = <<>> THEN <<>> ELSE Head(pages) \o Flatten(Tail(pages))

\* The pages a full scan lists: those before the first empty one.
RECURSIVE ListedPages(_)
ListedPages(pages) ==
    IF pages = <<>> \/ Head(pages) = <<>> THEN <<>>
    ELSE <<Head(pages)>> \o ListedPages(Tail(pages))

DegradedFields ==
    {"type", "id", "agent_id", "timestamp", "timestamp_ms", "formatted_time",
     "credits_used", "duration_secs", "status", "error"}

\* The total_tokens of the transcript entries that carry one.
TokensOf(transcript) ==
    SumSeq([i \in 1..Len(transcript) |->
                IF "llm_usage" \in DOMAIN transcript[i]
                   /\ "total_tokens" \in DOMAIN transcript[i].llm_usage
                THEN transcript[i].llm_usage.total_tokens
                ELSE 0])

\* C4: when no conversations.list call raised, the result holds one record
\* per listed session, over all pages and in list order; the record of a
\* session is degraded (an error field, credits_used 0, list-level fields
\* only) exactly when its detail fetch raised, and enriched otherwise.
C4_FailureIsolation ==
    (cpc = "done" /\ ~conv_list_raised) =>
        LET listed == Flatten(ListedPages(convPages)) IN
        /\ Ids(conv_result) = [i \in 1..Len(listed) |-> listed[i].conversation_id]
        /\ Len(get_log) = Len(listed)
        /\ \A i \in 1..Len(conv_result) :
              LET rec == conv_result[i]
                  got == get_log[i]
              IN  /\ got.conversation_id = rec.id
                  /\ ("error" \in DOMAIN rec) <=> got.raised
                  /\ got.raised =>
                        /\ DOMAIN rec = DegradedFields
                        /\ rec.credits_used = 0
                        /\ rec.timestamp = listed[i].start_time_unix_secs
                        /\ rec.duration_secs = listed[i].call_duration_secs
                  /\ ~got.raised =>
                        /\ {"total_llm_tokens", "transcript_summary"} \subseteq DOMAIN rec
                        /\ rec.credits_used =
                              IF "cost" \in DOMAIN got.detail.metadata
                              THEN got.detail.metadata.cost ELSE 0
                        /\ rec.total_llm_tokens = TokensOf(got.detail.transcript)

\* C4 witness: a full scan of two pages in which a detail fetch raised for a
\* session of the first page and a later session was enriched from a detail
\* with a cost and token counts.
C4_Witness ==
    /\ cpc = "done" /\ ~conv_list_raised
    /\ Len(list_calls) >= 2
    /\ Len(conv_result) >= 3
    /\ get_log[1].raised
    /\ \E i \in 2..Len(conv_result) :
          /\ ~get_log[i].raised
          /\ conv_result[i].credits_used = 7
          /\ conv_result[i].total_llm_tokens = 25
    /\ \E i \in 2..Len(conv_result) : get_log[i].raised

\* C5 as claimed: when conversations.list raises on a later page, the
\* function returns the records accumulated from the earlier pages.
C5_TruncatedResult ==
    (cpc = "done" /\ conv_list_raised /\ Len(list_calls) >= 2) =>
        conv_result = all_conversations

\* ------------------------------------------------- properties: main
\* The first conversations.list call of the run raised.
FirstListRaised == conv_list_raised /\ Len(list_calls) = 1

\* The document in the automatically named file.
WrittenDocument == files[1].text.json

\* C6: when the first conversations.list call raises, the fetcher returns
\* the empty list and does not raise; main goes on to the analytics fetch,
\* summarizes the speech records alone, writes the report and ends with
\* status 0.
C6_FeatureUnavailable ==
    FirstListRaised =>
        /\ cpc = "done" /\ conv_result = <<>>
        /\ pc = "in_conversations" => ENABLED TakeConversations
        /\ pc = "analytics" => ENABLED GetUsageAnalytics
        /\ pc \in {"in_conversations", "analytics", "report", "exited"}
        /\ pc = "exited" =>
              /\ exit_status = <<0>>
              /\ conversation_history = <<>>
              /\ "usage.get" \in Range(api_log)
              /\ Len(all_calls) = Len(speech_history)
              /\ Range(all_calls) = Range(speech_history)
              /\ summary.total_api_calls = Len(speech_history)
              /\ DOMAIN summary.breakdown_by_type \subseteq {"speech_generation"}
              /\ Len(files) >= 1
              /\ WrittenDocument.summary = summary

\* C6 witness: a run ended after the first conversations.list call raised,
\* with speech records in its summary.
C6_Witness ==
    /\ FirstListRaised /\ pc = "exited"
    /\ Len(speech_history) >= 2
    /\ summary.total_api_calls >= 2

\* C7: a reader whose try block raised (the remote call or the reading of
\* its answer) returns an object with an `error` key; main goes on to the
\* next fetch or to the report, and a run that ends has made all the fetches
\* and written a report that carries that object under subscription_info or
\* usage_analytics.
C7_ReadersNeverRaise ==
    /\ "subscription" \in reader_failed => "error" \in DOMAIN subscription_info
    /\ "analytics" \in reader_failed => "error" \in DOMAIN usage_analytics
    /\ reader_failed # {} =>
          /\ pc = "speech" => ENABLED CallSpeech
          /\ pc = "in_conversations" /\ cpc = "done" => ENABLED TakeConversations
          /\ pc = "analytics" => ENABLED GetUsageAnalytics
          /\ pc = "exited" =>
                /\ exit_status = <<0>>
                /\ Range(api_log) = {"user.get", "usage.get"}
                /\ Len(requests) >= 1 /\ Len(list_calls) >= 1
                /\ Len(files) >= 1
                /\ WrittenDocument.subscription_info = subscription_info
                /\ WrittenDocument.usage_analytics = usage_analytics
                /\ WrittenDocument.summary.total_api_calls =
                      Len(speech_history) + Len(conversation_history)

\* C7 witness: a run ended in which both readers failed and records of both
\* kinds were fetched.
C7_Witness ==
    /\ reader_failed = {"subscription", "analytics"}
    /\ pc = "exited"
    /\ Len(speech_history) >= 1 /\ Len(conversation_history) >= 1

\* The timestamp of the command line in milliseconds.
InMilliseconds(t) ==
    IF Len(t) < 4 \/ (Len(t) = 4 /\ (t[1] < 32 \/ (t[1] = 32 /\ (t[2] < 503
                        \/ (t[2] = 503 /\ t[3] < 680)))))
    THEN Append(t, 0) ELSE t

\* C8 as claimed: a run ends with status 1 exactly when the credential is missing, or
\* the normalized start is not before the normalized end, or constructing
\* the client raised; every other run ends with status 0.
C8_ExitStatus ==
    pc = "exited" =>
        /\ exit_status \in {<<0>>, <<1>>}
        /\ exit_status = <<1>> <=>
              \/ api_key \in {None, ""}
              \/ ~TsLess(InMilliseconds(args.start_timestamp),
                         InMilliseconds(args.end_timestamp))
              \/ client_raised

\* ------------------------------------------ properties: summarize_usage
CreditsOf(call) == IF "credits_used" \in DOMAIN call THEN call.credits_used ELSE 0

\* How many calls of a list satisfy a test, and the credits they used.
CountWhere(calls, Test(_)) == Cardinality({i \in 1..Len(calls) : Test(calls[i])})

CreditsWhere(calls, Test(_)) ==
    SumSeq([i \in 1..Len(calls) |-> IF Test(calls[i]) THEN CreditsOf(calls[i]) ELSE 0])

\* C9: total_api_calls is the length of the list, total_credits_used the sum
\* of the credits_used (0 when absent), and breakdown_by_type maps each type
\* that occurs to the number of records of that type and their credits.
C9_Totals ==
    pc = "summarized" =>
        /\ summary.total_api_calls = Len(all_calls)
        /\ summary.total_credits_used = CreditsWhere(all_calls, LAMBDA c : TRUE)
        /\ DOMAIN summary.breakdown_by_type = {c.type : c \in Range(all_calls)}
        /\ \A t \in DOMAIN summary.breakdown_by_type :
              summary.breakdown_by_type[t] =
                 [count |-> CountWhere(all_calls, LAMBDA c : c.type = t),
                  credits |-> CreditsWhere(all_calls, LAMBDA c : c.type = t)]
        /\ SumSeq([i \in 1..Len(all_calls) |->
                     IF \A j \in 1..(i - 1) : all_calls[j].type # all_calls[i].type
                     THEN summary.breakdown_by_type[all_calls[i].type].count
                     ELSE 0]) = summary.total_api_calls

\* C9 witness: a list with two records of one type, one of the other and a
\* record without credits_used was summarized.
C9_Witness ==
    /\ pc = "summarized"
    /\ Len(all_calls) = 3
    /\ DOMAIN summary.breakdown_by_type = {"speech_generation", "conversational_ai"}
    /\ summary.breakdown_by_type["speech_generation"].count = 2
    /\ \E c \in Range(all_calls) : "credits_used" \notin DOMAIN c

\* A speech record whose value under the key is neither None nor empty.
SpeechWith(call, key) ==
    /\ call.type = "speech_generation"
    /\ key \in DOMAIN call /\ call[key] # None /\ call[key] # ""

\* A speech record whose value under the key is not None.
SpeechWithNonNull(call, key) ==
    /\ call.type = "speech_generation"
    /\ key \in DOMAIN call /\ call[key] # None

BreakdownIs(breakdown, calls, key, Member(_, _)) ==
    /\ DOMAIN breakdown = {c[key] : c \in {d \in Range(calls) : Member(d, key)}}
    /\ \A k \in DOMAIN breakdown :
          breakdown[k] =
             [count |-> CountWhere(calls, LAMBDA c : Member(c, key) /\ c[key] = k),
              credits |-> CreditsWhere(calls, LAMBDA c : Member(c, key) /\ c[key] = k)]

\* C10 as claimed: the two breakdowns count exactly the speech records whose
\* source (voice_name) is non-null.
C10_NonNullKeys ==
    pc = "summarized" =>
        /\ BreakdownIs(summary.breakdown_by_source, all_calls, "source", SpeechWithNonNull)
        /\ BreakdownIs(summary.breakdown_by_voice, all_calls, "voice_name", SpeechWithNonNull)

\* C10 amended: the two breakdowns count exactly the speech records whose
\* source (voice_name) is neither null nor the empty string; conversation
\* records and the other speech records are in neither.
C10_TruthyKeys ==
    pc = "summarized" =>
        /\ BreakdownIs(summary.breakdown_by_source, all_calls, "source", SpeechWith)
        /\ BreakdownIs(summary.breakdown_by_voice, all_calls, "voice_name", SpeechWith)

\* C10 witness: a list with a speech record that has both names, a speech
\* record with empty names and a conversation record that carries both names
\* was summarized.
C10_Witness ==
    /\ pc = "summarized"
    /\ \E c \in Range(all_calls) : SpeechWith(c, "source") /\ SpeechWith(c, "voice_name")
    /\ \E c \in Range(all_calls) : c.type = "speech_generation" /\ c.source = ""
    /\ \E c \in Range(all_calls) : c.type = "conversational_ai" /\ "source" \in DOMAIN c
    /\ DOMAIN summary.breakdown_by_source = {"TTS"}

\* C11: summarize_usage on the empty list returns total_api_calls 0,
\* total_credits_used 0, three empty breakdown mappings and a time_range
\* whose earliest_call and latest_call are both None (written <<>>).
C11_EmptyList ==
    (pc = "summarized" /\ all_calls = <<>>) =>
        /\ DOMAIN summary = {"total_api_calls", "total_credits_used",
                             "breakdown_by_type", "breakdown_by_source",
                             "breakdown_by_voice", "time_range"}
        /\ summary.total_api_calls = 0
        /\ summary.total_credits_used = 0
        /\ DOMAIN summary.breakdown_by_type = {}
        /\ DOMAIN summary.breakdown_by_source = {}
        /\ DOMAIN summary.breakdown_by_voice = {}
        /\ DOMAIN summary.time_range = {"earliest_call", "latest_call"}
        /\ summary.time_range.earliest_call = <<>>
        /\ summary.time_range.latest_call = <<>>

\* C11 witness: the empty list was summarized.
C11_Witness ==
    /\ pc = "summarized"
    /\ all_calls = <<>>
    /\ summary.total_api_calls = 0

\* The records the two fetchers returned, speech records first.
MergedRecords == speech_history \o conversation_history

\* A run that reached the report.
Reported == pc = "exited" /\ Len(files) >= 1

\* The list is the merged list in ascending order of timestamp: the same
\* records, none before a record with a smaller timestamp, and records with
\* equal timestamps in the order of the merged list.
IsSortedMerge(calls) ==
    /\ Len(calls) = Len(MergedRecords)
    /\ \A r \in Range(MergedRecords) :
          Cardinality({i \in 1..Len(calls) : calls[i] = r}) =
          Cardinality({i \in 1..Len(MergedRecords) : MergedRecords[i] = r})
    /\ \A i \in 1..Len(calls), j \in 1..Len(calls) :
          i < j => ~TsLess(calls[j].timestamp, calls[i].timestamp)
    /\ \A i \in 1..Len(MergedRecords), j \in 1..Len(MergedRecords) :
          (i < j /\ MergedRecords[i].timestamp = MergedRecords[j].timestamp) =>
             \E k \in 1..Len(calls), l \in 1..Len(calls) :
                k < l /\ calls[k] = MergedRecords[i] /\ calls[l] = MergedRecords[j]

\* The run that differs from this one only in --summary-only and is given
\* the same remote answers: nothing before the report reads the option, so
\* it reaches the report with the same fetched records.
TwinArgs == [args EXCEPT !.summary_only = ~@]
TwinCalls == SortByTimestamp(MergedRecords)
TwinSummary == summarize_usage(TwinCalls)
TwinDocument ==
    OutputData(TwinArgs, start_ms, end_ms, subscription_info, TwinSummary,
               usage_analytics, TwinCalls)

\* C12: the run with --summary-only and the run without it, over the same
\* remote data, write the same summary and print the same summary counts;
\* the document of the --summary-only run has no individual_calls key and
\* the document of the other run has individual_calls equal to the merged
\* records in ascending order of timestamp.
C12_SummaryOnly ==
    Reported =>
        LET summaryOnlyDoc == IF args.summary_only THEN WrittenDocument ELSE TwinDocument
            fullDoc == IF args.summary_only THEN TwinDocument ELSE WrittenDocument
        IN  /\ output_data = WrittenDocument
            /\ summaryOnlyDoc.summary = fullDoc.summary
            /\ WrittenDocument.summary = summary
            /\ summary.total_api_calls = Len(MergedRecords)
            /\ summary.total_credits_used = CreditsWhere(MergedRecords, LAMBDA c : TRUE)
            /\ stdout[1] = PrintedSummary(TwinSummary)
            /\ stdout[1].total_api_calls = Len(MergedRecords)
            /\ stdout[1].speech_generations = Len(speech_history)
            /\ stdout[1].conversational_ai_calls = Len(conversation_history)
            /\ "individual_calls" \notin DOMAIN summaryOnlyDoc
            /\ "individual_calls" \in DOMAIN fullDoc
            /\ IsSortedMerge(fullDoc.individual_calls)
            /\ ~args.summary_only => fullDoc.individual_calls = all_calls

\* C12 witness: a --summary-only run wrote its report after fetching speech
\* records and a conversation record that the sort had to reorder.
C12_Witness ==
    /\ Reported /\ args.summary_only
    /\ Len(speech_history) >= 2 /\ Len(conversation_history) >= 1
    /\ TwinCalls # MergedRecords
    /\ "individual_calls" \notin DOMAIN WrittenDocument
    /\ Len(TwinDocument.individual_calls) >= 3

\* ------------------------------------ properties: normalize_timestamp
\* t < 32503680000, read off the limbs of t.
BelowThreshold(t) ==
    \/ t[1] < 0
    \/ Len(t) < 4
    \/ Len(t) = 4 /\ (t[1] < 32 \/ (t[1] = 32 /\ (t[2] < 503
                        \/ (t[2] = 503 /\ t[3] < 680))))

\* The integer a number of at most three limbs stands for.
IntOf(t) ==
    LET sign == IF t[1] < 0 THEN 0 - 1 ELSE 1
        RECURSIVE Fold(_, _)
        Fold(s, acc) == IF s = <<>> THEN acc ELSE Fold(Tail(s), acc * 1000 + Head(s))
    IN  sign * Fold(Tail(t), sign * t[1])

\* C13: normalize_timestamp(t) is t * 1000 when t < 32503680000 and t
\* otherwise, and at or above 32503680000 applying it again changes nothing:
\* normalize(normalize(t)) = normalize(t) = t.
C13_Normalize ==
    LET t == args.timestamp
    IN  /\ pc \in {"normalized", "renormalized"} =>
              /\ BelowThreshold(t) =>
                    /\ Len(start_ms) = Len(t) + (IF t = <<0>> THEN 0 ELSE 1)
                    /\ \A i \in 1..Len(t) : start_ms[i] = t[i]
                    /\ start_ms[Len(start_ms)] = 0
                    /\ Len(t) <= 2 => IntOf(start_ms) = IntOf(t) * 1000
              /\ ~BelowThreshold(t) => start_ms = t
        /\ (pc = "renormalized" /\ ~BelowThreshold(t)) =>
              end_ms = start_ms /\ end_ms = t

\* C13 witness: the function was applied twice to 32503680000 itself.
C13_Witness ==
    /\ pc = "renormalized"
    /\ args.timestamp = <<32, 503, 680, 0>>
    /\ end_ms = <<32, 503, 680, 0>>

\* ------------------------------------- properties: speech, pagination
\* History item i is inside the window and stands after an older record.
ShadowedAt(i) ==
    /\ ItemInWindow(history[i])
    /\ \E j \in 1..(i - 1) : OlderAt(j)

\* C14: whatever the order of the upstream history, a record inside
\* [start_ms, end_ms] that stands after a record older than start_ms, on the
\* same page or a later one, is never looked at and is in no result; the
\* fetcher returns without it and without an error.
C14_SilentDrop ==
    \A i \in 1..Len(history) :
        ShadowedAt(i) =>
            /\ history[i].history_item_id \notin Range(examined)
            /\ \A r \in Range(all_history) \cup Range(speech_result) :
                  r.id # history[i].history_item_id
            /\ spc = "done" =>
                  Len(speech_result) < Cardinality({k \in 1..Len(history) :
                                                      ItemInWindow(history[k])})

\* C14 witness: nothing raised, every response told the truth about
\* has_more, the scan returned at an older record on the first page, and a
\* record inside the window on the second page is missing from the result.
C14_Witness ==
    /\ spc = "done" /\ ~speech_raised /\ ~has_more_lied
    /\ pageCap = 2 /\ Len(history) = 3
    /\ OlderAt(2) /\ history[2].history_item_id \in Range(examined)
    /\ ShadowedAt(3)
    /\ Len(requests) = 1
    /\ Len(speech_result) = 1
    /\ \A r \in Range(speech_result) : r.id # history[3].history_item_id

\* A history.list request is issued in this step.
RequestIssued == Len(requests') = Len(requests) + 1

\* C15: the first history.list request carries start_after_history_item_id
\* None and page_size 1000; each later one carries page_size 1000 and the
\* last_history_item_id of the response before it, and is issued only if
\* that response was non-empty, had has_more true and held no record older
\* than start_ms; an empty response ends the call at once, and after a
\* response with has_more false the page is finished and the call ends with
\* no further request.
C15_Pagination ==
    [][ /\ RequestIssued =>
              LET new == requests'[Len(requests')] IN
              /\ SubSeq(requests', 1, Len(requests)) = requests
              /\ new.page_size = 1000
              /\ IF requests = <<>>
                 THEN new.start_after_history_item_id = None
                 ELSE /\ response # <<>>
                      /\ response.history # <<>>
                      /\ response.has_more
                      /\ \A item \in Range(response.history) :
                            ~TsLess(Mul1000(item.date_unix), start_ms)
                      /\ new.start_after_history_item_id = response.last_history_item_id
        /\ (RequestIssued /\ ~speech_raised' /\ response'.history = <<>>) =>
              spc' = "done" /\ speech_result' = all_history
        /\ (response # <<>> /\ (response.history = <<>> \/ ~response.has_more)) =>
              /\ ~RequestIssued
              /\ spc' # "list"
              /\ (spc = "items" /\ idx > Len(response.history)) => spc' = "done"
      ]_vars

\* C15 witness: three requests were made, the second and third carrying the
\* cursor of the response before, and the third response, which had has_more
\* false, ended the call.
C15_Witness ==
    /\ spc = "done" /\ ~speech_raised
    /\ Len(requests) = 3
    /\ requests[1].start_after_history_item_id = None
    /\ requests[2].start_after_history_item_id = history[1].history_item_id
    /\ requests[3].start_after_history_item_id = history[2].history_item_id
    /\ response.history # <<>> /\ ~response.has_more
    /\ Len(speech_result) = 3

\* ------------------------------------------ properties: remote calls
\* The number of calls of the endpoint that main has made.
CallsOf(log, endpoint) == Cardinality({i \in 1..Len(log) : log[i] = endpoint})

\* C16: no remote call that raised is issued again in the run.  Once
\* get_speech_history has caught an exception it makes no further
\* history.list request; once conversations.list has raised, the fetcher
\* makes no further conversations.list or conversations.get call; a
\* conversation whose conversations.get raised is not fetched again (the
\* listing names each conversation once); client.user.get and
\* client.usage.get are each called at most once.
C16_NoRetries ==
    [][ /\ speech_raised => requests' = requests
        /\ conv_list_raised => (list_calls' = list_calls /\ get_log' = get_log)
        /\ \A i \in 1..Len(get_log') :
              get_log'[i].raised =>
                 \A j \in 1..Len(get_log') :
                    j # i => get_log'[j].conversation_id # get_log'[i].conversation_id
        /\ CallsOf(api_log', "user.get") <= 1
        /\ CallsOf(api_log', "usage.get") <= 1
        /\ (pc = "subscription" /\ pc' # pc) => CallsOf(api_log', "user.get") = 1
        /\ (pc = "analytics" /\ pc' # pc) => CallsOf(api_log', "usage.get") = 1
      ]_vars

\* C16 witness: a run ended in which client.user.get raised, the second
\* history.list request raised, a conversations.get raised and the second
\* conversations.list call raised, each of them called exactly once.
C16_Witness ==
    /\ pc = "exited" /\ exit_status = <<0>>
    /\ "subscription" \in reader_failed /\ "error" \in DOMAIN subscription_info
    /\ api_log = <<"user.get", "usage.get">>
    /\ speech_raised /\ Len(requests) = 2 /\ Len(examined) = 1
    /\ conv_list_raised /\ Len(list_calls) = 2
    /\ Len(get_log) = 1 /\ get_log[1].raised
====
